---- MODULE Spec2Model ----
(***************************************************************************)
(* A model of miniray's camera (src/src/camera.h, the multithreaded       *)
(* version at lines 124-402): render() with its worker threads and the    *)
(* progress monitor, ray_color()'s bounded recursion, and write_image().  *)
(*                                                                         *)
(* Abstractions.  A colour sum is represented by the number of samples     *)
(* that were added to it (every `+=` of line 244 adds one), a byte of the  *)
(* bitmap data by the framebuffer pixel and channel it was made from, and  *)
(* a point by its z coordinate.  Vectors are sequences, so element k of    *)
(* the code is element k+1 of the model.                                   *)
(***************************************************************************)
EXTENDS Integers, Sequences, FiniteSets, TLC

\* ---- bounds of the model ----
MaxWidth   == 4
MaxHeight  == 3
MaxSamples == 2
MaxThreads == 3
MaxDepth   == 3
MaxWork    == 8     \* cap on image_width * image_height * samples_per_pixel
MaxIOFaults == 1    \* number of fopen/fwrite failures injected in one write_image

VARIABLES
    image_width, image_height, samples_per_pixel, max_depth, max_threads,
    lookfrom, lookat, w,
    image, render_progress, threads,
    pc, i, percent, lastPercent, rawProgress, n,
    writers,
    bitmap_data, f, out, ioFailed, faults,
    rc_stack, rc_result

config  == <<image_width, image_height, samples_per_pixel, max_depth, lookfrom, lookat>>
monitor == <<percent, lastPercent, rawProgress, n>>
file    == <<bitmap_data, f, out, ioFailed, faults>>
rayvars == <<rc_stack, rc_result>>
vars == <<image_width, image_height, samples_per_pixel, max_depth, max_threads,
          lookfrom, lookat, w, image, render_progress, threads,
          pc, i, percent, lastPercent, rawProgress, n, writers,
          bitmap_data, f, out, ioFailed, faults, rc_stack, rc_result>>

\* ---- helpers ----
Black == 0

\* C++ integer division truncates toward zero
Div(a, b) == IF (a >= 0) = (b > 0) THEN (IF a >= 0 THEN a \div b ELSE (-a) \div (-b))
             ELSE -(IF a >= 0 THEN a \div (-b) ELSE (-a) \div b)

\* unit_vector(lookfrom - lookat) on the z axis: 0/0 is NaN
unit_vector(d) == IF d = 0 THEN "nan" ELSE IF d > 0 THEN "+z" ELSE "-z"

\* std::vector::resize(count) with an int argument: a negative count converts
\* to a size_t above max_size() and resize throws std::length_error
ResizeThrows(count) == count < 0

Zeros(count) == [k \in 1..count |-> 0]

\* (int) of a NaN double is undefined: x86 yields INT_MIN, AArch64 yields 0
INT_MIN == -2147483647 - 1
NaNToInt == {INT_MIN, 0}

\* percent = (double)(rawProgress) / image_height * 100, converted to int.
\* For image_height # 0 the double result truncates to the integer quotient
\* (exact for the heights of the model; rawProgress = image_height gives 100.0).
PercentValues(raw, height) ==
    IF height = 0 THEN NaNToInt ELSE {Div(100 * raw, height)}

\* ---- render(): the row range handed to worker i (lines 302-304) ----
Offset(height, T) == Div(height, T)
\* mutant: every range starts at row 0
MinRow_Zero(t, height, T) == 0

MinRow(t, height, T) == t * Offset(height, T)
\* mutant: the last worker does not absorb the remainder
MaxRow_NoRemainder(t, height, T) == MinRow(t, height, T) + Offset(height, T)

MaxRow(t, height, T) ==
    IF t < T - 1 THEN MinRow(t, height, T) + Offset(height, T) ELSE height

\* where a worker stands when it (re)enters the row loop at row j (lines 239-242)
RowEntry(j, maxRow) ==
    IF j < maxRow
    THEN (IF image_width > 0 /\ samples_per_pixel > 0 THEN "sample" ELSE "progress")
    ELSE "return"

\* ---- the state after construction, with the public fields set by the caller ----
Init ==
    /\ image_width \in -1..MaxWidth
    /\ image_height \in -1..MaxHeight
    /\ samples_per_pixel \in 0..MaxSamples
    /\ image_width * image_height * samples_per_pixel <= MaxWork
    /\ max_depth \in {0, MaxDepth}
    /\ max_threads \in -1..MaxThreads
    /\ lookfrom \in {-1, 0}
    /\ lookat = 0
    /\ w = "unset"
    /\ image = <<>>
    /\ render_progress = <<>>
    /\ threads = <<>>
    /\ pc = "initialize"
    /\ i = 0
    /\ percent = 0
    /\ lastPercent = -1
    /\ rawProgress = 0
    /\ n = 0
    /\ writers = <<>>
    /\ bitmap_data = <<>>
    /\ f = "none"
    /\ out = <<>>
    /\ ioFailed = FALSE
    /\ faults = 0
    /\ rc_stack = <<>>
    /\ rc_result = Black

\* ---- initialize() (lines 149-189), called first by render() ----
Initialize ==
    /\ pc = "initialize"
    /\ w' = unit_vector(lookfrom - lookat)
    /\ IF ResizeThrows(image_height * image_width)
       THEN /\ pc' = "length_error"
            /\ UNCHANGED <<image, writers, render_progress, max_threads>>
       ELSE /\ image' = Zeros(image_height * image_width)
            /\ writers' = [k \in 1..(image_height * image_width) |-> {}]
            /\ IF ResizeThrows(max_threads)
               THEN /\ pc' = "length_error"
                    /\ UNCHANGED <<render_progress, max_threads>>
               ELSE /\ render_progress' = Zeros(max_threads)
                    /\ max_threads' = IF max_threads > 0 THEN max_threads ELSE 1
                    /\ pc' = "spawn"
    /\ UNCHANGED <<config, threads, i, monitor, file, rayvars>>

\* ---- render(): one iteration of the spawn loop (lines 301-306) ----
Spawn ==
    /\ pc = "spawn"
    /\ IF i < max_threads
       THEN LET minRow == MinRow(i, image_height, max_threads)
                maxRow == MaxRow(i, image_height, max_threads)
            IN /\ threads' = Append(threads,
                      [threadId |-> i, minRow |-> minRow, maxRow |-> maxRow,
                       at |-> RowEntry(minRow, maxRow), j |-> minRow, i |-> 0, sample |-> 0])
               /\ i' = i + 1
               /\ UNCHANGED <<pc, monitor>>
       ELSE \* print_render_progress() is entered: lines 252-255
            /\ pc' = "poll"
            /\ percent' = 0
            /\ lastPercent' = -1
            /\ rawProgress' = 0
            /\ n' = 0
            /\ UNCHANGED <<threads, i>>
    /\ UNCHANGED <<config, max_threads, w, image, render_progress, writers, file, rayvars>>

Running == pc \notin {"crashed", "length_error"}

\* ---- render_thread(): one sample added to a pixel (line 244) ----
\* the framebuffer slot a worker at "sample" is about to write
PixelIndex(t) == t.j * image_width + t.i

Sample(k) ==
    /\ Running
    /\ k \in 1..Len(threads)
    /\ threads[k].at = "sample"
    /\ LET t == threads[k]
           p == PixelIndex(t)
           lastSample == t.sample + 1 >= samples_per_pixel
           lastCol == t.i + 1 >= image_width
       IN /\ image' = [image EXCEPT ![p + 1] = @ + 1]
          /\ writers' = [writers EXCEPT ![p + 1] = @ \cup {t.threadId}]
          /\ threads' = [threads EXCEPT ![k] =
                IF ~lastSample THEN [t EXCEPT !.sample = @ + 1]
                ELSE IF ~lastCol THEN [t EXCEPT !.sample = 0, !.i = @ + 1]
                ELSE [t EXCEPT !.sample = 0, !.i = 0, !.at = "progress"]]
    /\ UNCHANGED <<config, max_threads, w, render_progress, pc, i, monitor, file, rayvars>>

\* mutant: the increment lands on the neighbour's counter
IncrementProgress_Neighbour(progress, threadId) ==
    [progress EXCEPT ![((threadId + 1) % Len(progress)) + 1] = @ + 1]

\* render_progress[threadId] += 1
IncrementProgress(progress, threadId) ==
    [progress EXCEPT ![threadId + 1] = @ + 1]

\* ---- render_thread(): a row is finished (line 247) and the row loop advances ----
Progress(k) ==
    /\ Running
    /\ k \in 1..Len(threads)
    /\ threads[k].at = "progress"
    /\ LET t == threads[k]
           next == [t EXCEPT !.j = @ + 1, !.at = RowEntry(t.j + 1, t.maxRow)]
       IN IF t.threadId < Len(render_progress)
          THEN /\ render_progress' = IncrementProgress(render_progress, t.threadId)
               /\ threads' = [threads EXCEPT ![k] = next]
               /\ UNCHANGED pc
          ELSE \* operator[] past the end of the vector is undefined: with no
               \* storage behind the vector the process dies, with storage left
               \* over the write lands outside size() and no counter changes
               \/ /\ pc' = "crashed"
                  /\ UNCHANGED <<threads, render_progress>>
               \/ /\ threads' = [threads EXCEPT ![k] = next]
                  /\ UNCHANGED <<pc, render_progress>>
    /\ UNCHANGED <<config, max_threads, w, image, writers, i, monitor, file, rayvars>>

\* ---- render_thread() returns: the thread terminates ----
Return(k) ==
    /\ Running
    /\ k \in 1..Len(threads)
    /\ threads[k].at = "return"
    /\ threads' = [threads EXCEPT ![k].at = "exited"]
    /\ UNCHANGED <<config, max_threads, w, image, render_progress, writers, pc, i,
                   monitor, file, rayvars>>

\* ---- print_render_progress(): the range-for reads one counter (lines 257-259) ----
\* The counters are plain ints read while the workers increment them; each read
\* is one aligned load, so it yields a value the counter held, and the reads of
\* one pass interleave with the workers' increments.
PollRead ==
    /\ pc = "poll"
    /\ n < Len(render_progress)
    /\ rawProgress' = rawProgress + render_progress[n + 1]
    /\ n' = n + 1
    /\ UNCHANGED <<config, max_threads, w, image, render_progress, threads, writers,
                   pc, i, percent, lastPercent, file, rayvars>>

\* ---- print_render_progress(): lines 261-269 and the loop test of line 256 ----
PollEval ==
    /\ pc = "poll"
    /\ n = Len(render_progress)
    /\ \E p \in PercentValues(rawProgress, image_height) :
          /\ percent' = p
          /\ lastPercent' = p
          /\ pc' = IF p < 100 THEN "poll" ELSE "fill"
    /\ rawProgress' = 0
    /\ n' = 0
    /\ UNCHANGED <<config, max_threads, w, image, render_progress, threads, writers,
                   i, file, rayvars>>

\* ---- print_render_progress(): lines 271-272, then render() starts joining ----
Fill ==
    /\ pc = "fill"
    /\ render_progress' = Zeros(Len(render_progress))
    /\ pc' = "join"
    /\ i' = 0
    /\ UNCHANGED <<config, max_threads, w, image, threads, writers, monitor, file, rayvars>>

\* mutant: join returns without waiting
Joinable_NoWait(t) == TRUE

\* threads[t].join() returns once the thread has terminated
Joinable(t) == threads[t + 1].at = "exited"

\* ---- render(): one iteration of the join loop (lines 312-314), then the return ----
Join ==
    /\ pc = "join"
    /\ IF i < max_threads
       THEN /\ Joinable(i)
            /\ i' = i + 1
            /\ UNCHANGED pc
       ELSE /\ pc' = "rendered"
            /\ UNCHANGED i
    /\ UNCHANGED <<config, max_threads, w, image, render_progress, threads, writers,
                   monitor, file, rayvars>>

\* ---- write_image() (lines 344-399), called on a rendered camera ----
\* (unsigned char)(value >> (8 * k)) for a non-negative int
ByteOf(value, k) == (value \div (256 ^ k)) % 256

Literal(v) == <<"lit", v>>

\* the byte made from one channel of framebuffer pixel p (lines 336-338)
ChannelByte(channel, p) == <<channel, p>>

\* get_bitmap_data() (lines 322-342): blue, green, red for every pixel in order
get_bitmap_data ==
    [k \in 1..(3 * Len(image)) |->
        ChannelByte(<<"blue", "green", "red">>[((k - 1) % 3) + 1], (k - 1) \div 3)]

\* int file_size = 54 + 3 * image_width * image_height (line 351)
file_size == 54 + 3 * image_width * image_height

\* lines 354-359 and 370-373
bmp_header ==
    <<Literal(66), Literal(77)>>
    \o [k \in 1..4 |-> Literal(ByteOf(file_size, k - 1))]
    \o [k \in 1..4 |-> Literal(0)]
    \o <<Literal(54), Literal(0), Literal(0), Literal(0)>>

\* lines 360-366 and 375-383
bmp_info ==
    <<Literal(40), Literal(0), Literal(0), Literal(0)>>
    \o [k \in 1..4 |-> Literal(ByteOf(image_width, k - 1))]
    \o [k \in 1..4 |-> Literal(ByteOf(image_height, k - 1))]
    \o <<Literal(1), Literal(0), Literal(24), Literal(0)>>
    \o [k \in 1..24 |-> Literal(0)]

\* mutant: rows are written top to bottom
RowOffset_TopDown(r) == image_width * r * 3

\* the offset into the bitmap data of the row written in iteration r (line 393)
RowOffset(r) == image_width * (image_height - r - 1) * 3

\* the number of padding bytes after a row (line 394)
PadCount == (4 - ((image_width * 3) % 4)) % 4

\* item counts a failing fwrite may return: nothing, or part of the request
ShortCounts(count) == {c \in {0, count \div 2} : c < count}

\* fwrite(ptr, size, count, f) on storage `data` from element `from` on
fwrite(data, from, size, count, next) ==
    /\ \/ /\ f = "open"
          /\ out' = out \o SubSeq(data, from + 1, from + size * count)
          /\ pc' = next
          /\ UNCHANGED <<ioFailed, faults>>
       \/ /\ f = "open"
          /\ faults < MaxIOFaults
          /\ \E c \in ShortCounts(count) :
                out' = out \o SubSeq(data, from + 1, from + size * c)
          /\ pc' = next
          /\ ioFailed' = TRUE
          /\ faults' = faults + 1
       \/ \* a null FILE* is undefined: the C library faults on it, or
          \* rejects the call and returns 0
          /\ f = "null"
          /\ pc' \in {"crashed", next}
          /\ UNCHANGED <<out, ioFailed, faults>>
    /\ UNCHANGED <<config, max_threads, w, image, render_progress, threads, writers,
                   monitor, bitmap_data, f, rayvars>>

\* lines 347-386: the bitmap data, the headers, and fopen
WriteImageOpen ==
    /\ pc = "rendered"
    /\ bitmap_data' = get_bitmap_data
    /\ \/ /\ f' = "open"
          /\ UNCHANGED <<ioFailed, faults>>
       \/ /\ faults < MaxIOFaults
          /\ f' = "null"
          /\ ioFailed' = TRUE
          /\ faults' = faults + 1
    /\ out' = <<>>
    /\ pc' = "fwrite_header"
    /\ UNCHANGED <<config, max_threads, w, image, render_progress, threads, writers,
                   i, monitor, rayvars>>

\* line 387
WriteHeader ==
    /\ pc = "fwrite_header"
    /\ fwrite(bmp_header, 0, 1, 14, "fwrite_info")
    /\ UNCHANGED i

\* line 388, and the row loop starts
WriteInfo ==
    /\ pc = "fwrite_info"
    /\ fwrite(bmp_info, 0, 1, 40, "fwrite_row")
    /\ i' = 0

\* lines 391-393: the loop test and the pixels of one row
WriteRow ==
    /\ pc = "fwrite_row"
    /\ IF i < image_height
       THEN fwrite(bitmap_data, RowOffset(i), 3, image_width, "fwrite_pad")
       ELSE /\ pc' = "fclose"
            /\ UNCHANGED <<config, max_threads, w, image, render_progress, threads,
                           writers, monitor, file, rayvars>>
    /\ UNCHANGED i

\* line 394: the padding of the row
WritePad ==
    /\ pc = "fwrite_pad"
    /\ fwrite([k \in 1..3 |-> Literal(0)], 0, 1, PadCount, "fwrite_row")
    /\ i' = i + 1

\* line 398: fclose flushes what is still buffered, and write_image returns
WriteClose ==
    /\ pc = "fclose"
    /\ \/ /\ f = "open"
          /\ f' = "closed"
          /\ pc' = "written"
          /\ UNCHANGED <<ioFailed, faults>>
       \/ /\ f = "open"
          /\ faults < MaxIOFaults
          /\ f' = "closed"
          /\ pc' = "written"
          /\ ioFailed' = TRUE
          /\ faults' = faults + 1
       \/ /\ f = "null"
          /\ pc' \in {"crashed", "written"}
          /\ UNCHANGED <<f, ioFailed, faults>>
    /\ UNCHANGED <<config, max_threads, w, image, render_progress, threads, writers,
                   i, monitor, bitmap_data, out, rayvars>>

\* ---- ray_color() (lines 191-212): one call made for a sample at line 244 ----
\* what the external scene and materials may answer: the colours are scalars
Attenuations == {1, 2}      \* attenuation set by a material that scatters
Backgrounds  == {1, 2}      \* the white-to-blue blend of lines 209-211

\* the budget a call is entered with: max_depth at line 244, depth-1 at line 204
Budget(stack) == IF stack = <<>> THEN max_depth ELSE stack[Len(stack)].depth - 1

\* mutant: the budget test is off by one
Exhausted_OffByOne(depth) == depth < 0

\* line 195: no more light bounces are allowed
Exhausted(depth) == depth <= 0

\* ray_color is entered: a new activation with its own depth
RayEnter ==
    /\ pc = "ray_call"
    /\ rc_stack' = Append(rc_stack, [depth |-> Budget(rc_stack), attenuation |-> Black])
    /\ pc' = "ray_body"
    /\ UNCHANGED <<config, max_threads, w, image, render_progress, threads, writers,
                   i, monitor, file, rc_result>>

\* lines 195-211 of the innermost activation, up to its return or its recursive call
RayBody ==
    /\ pc = "ray_body"
    /\ LET top == rc_stack[Len(rc_stack)]
       IN IF Exhausted(top.depth)
          THEN /\ rc_result' = Black
               /\ pc' = "ray_return"
               /\ UNCHANGED rc_stack
          ELSE \/ \* world.hit is false: the background
                  /\ rc_result' \in Backgrounds
                  /\ pc' = "ray_return"
                  /\ UNCHANGED rc_stack
               \/ \* hit, and the material absorbs
                  /\ rc_result' = Black
                  /\ pc' = "ray_return"
                  /\ UNCHANGED rc_stack
               \/ \* hit, and the material scatters: line 204 recurses
                  /\ \E a \in Attenuations :
                        rc_stack' = [rc_stack EXCEPT ![Len(rc_stack)].attenuation = a]
                  /\ pc' = "ray_call"
                  /\ UNCHANGED rc_result
    /\ UNCHANGED <<config, max_threads, w, image, render_progress, threads, writers,
                   i, monitor, file>>

\* the innermost activation returns rc_result; a caller at line 204 multiplies
\* it by its attenuation and returns in turn
RayReturn ==
    /\ pc = "ray_return"
    /\ rc_stack' = SubSeq(rc_stack, 1, Len(rc_stack) - 1)
    /\ IF Len(rc_stack) > 1
       THEN /\ rc_result' = rc_stack[Len(rc_stack) - 1].attenuation * rc_result
            /\ pc' = "ray_return"
       ELSE /\ pc' = "ray_done"
            /\ UNCHANGED rc_result
    /\ UNCHANGED <<config, max_threads, w, image, render_progress, threads, writers,
                   i, monitor, file>>

\* a worker is about to evaluate ray_color(r, max_depth, world)
InitRay ==
    /\ image_width = 1
    /\ image_height = 1
    /\ samples_per_pixel = 1
    /\ max_depth \in -1..MaxDepth
    /\ max_threads = 1
    /\ lookfrom = -1
    /\ lookat = 0
    /\ w = "-z"
    /\ image = <<0>>
    /\ render_progress = <<0>>
    /\ threads = <<[threadId |-> 0, minRow |-> 0, maxRow |-> 1,
                    at |-> "sample", j |-> 0, i |-> 0, sample |-> 0]>>
    /\ pc = "ray_call"
    /\ i = 1
    /\ percent = 0
    /\ lastPercent = -1
    /\ rawProgress = 0
    /\ n = 0
    /\ writers = <<{}>>
    /\ bitmap_data = <<>>
    /\ f = "none"
    /\ out = <<>>
    /\ ioFailed = FALSE
    /\ faults = 0
    /\ rc_stack = <<>>
    /\ rc_result = Black

NextRay ==
    \/ RayEnter
    \/ RayBody
    \/ RayReturn

SpecRay == InitRay /\ [][NextRay]_vars
FairSpecRay == SpecRay /\ WF_vars(NextRay)

Next ==
    \/ Initialize
    \/ Spawn
    \/ \E k \in 1..MaxThreads + 1 : Sample(k)
    \/ \E k \in 1..MaxThreads + 1 : Progress(k)
    \/ \E k \in 1..MaxThreads + 1 : Return(k)
    \/ PollRead
    \/ PollEval
    \/ Fill
    \/ Join
    \/ WriteImageOpen
    \/ WriteHeader
    \/ WriteInfo
    \/ WriteRow
    \/ WritePad
    \/ WriteClose

Spec == Init /\ [][Next]_vars

\* the scheduling of the threads: every worker and the main thread keep running
FairSpec ==
    /\ Spec
    /\ \A k \in 1..MaxThreads + 1 : WF_vars(Sample(k) \/ Progress(k) \/ Return(k))
    /\ WF_vars(Initialize \/ Spawn \/ PollRead \/ PollEval \/ Fill \/ Join)

\* ---------------------------------------------------------------------------
\* Properties
\* ---------------------------------------------------------------------------
RECURSIVE Sum(_)
Sum(seq) == IF seq = <<>> THEN 0 ELSE seq[1] + Sum(SubSeq(seq, 2, Len(seq)))

Rows(t) == {r \in t.minRow..(t.maxRow - 1) : TRUE}

\* the spawn loop of render() has handed out every range
AllSpawned == pc \notin {"initialize", "length_error"} /\ Len(threads) = max_threads

\* render() has returned to its caller
Returned == pc \in {"rendered", "fwrite_header", "fwrite_info", "fwrite_row",
                    "fwrite_pad", "fclose", "written"}

\* C1: for image_height >= 1 and any thread count, the row ranges handed to the
\* workers are pairwise disjoint and together are exactly 0..image_height-1.
C1_RowRangesPartition ==
    /\ \A a, b \in 1..Len(threads) :
          a # b => Rows(threads[a]) \cap Rows(threads[b]) = {}
    /\ (AllSpawned /\ image_height >= 1) =>
          UNION {Rows(threads[a]) : a \in 1..Len(threads)} = 0..(image_height - 1)

\* more threads than rows, and a thread count that does not divide the height
C1_Witness ==
    /\ AllSpawned
    /\ image_height = 2
    /\ max_threads = 3
    /\ threads[3].maxRow = 2

\* C2: in every interleaving each framebuffer slot is written by one worker
\* only: no slot has two writers, and no worker is about to write a slot that
\* another worker wrote or is about to write.
C2_OneWriterPerPixel ==
    /\ \A p \in 1..Len(writers) : Cardinality(writers[p]) <= 1
    /\ \A a \in 1..Len(threads) :
          threads[a].at = "sample" =>
             /\ writers[PixelIndex(threads[a]) + 1] \subseteq {threads[a].threadId}
             /\ \A b \in 1..Len(threads) :
                   (b # a /\ threads[b].at = "sample") =>
                      PixelIndex(threads[b]) # PixelIndex(threads[a])

\* two workers are writing at the same time and both have written already
C2_Witness ==
    /\ \E a, b \in 1..Len(threads) :
          /\ a # b
          /\ threads[a].at = "sample"
          /\ threads[b].at = "sample"
    /\ \E p, q \in 1..Len(writers) : writers[p] = {0} /\ writers[q] = {1}

\* C3: when render() has returned, every spawned worker has terminated and
\* every one of the image_width * image_height pixels holds exactly
\* samples_per_pixel samples, counted from the zeroed framebuffer.
C3_ReturnAfterAllWorkers ==
    Returned =>
       /\ Len(threads) = max_threads
       /\ \A k \in 1..Len(threads) : threads[k].at = "exited"
       /\ Len(image) = image_width * image_height
       /\ \A p \in 1..Len(image) : image[p] = samples_per_pixel

C3_Witness ==
    /\ pc = "rendered"
    /\ image_width = 2
    /\ image_height = 2
    /\ samples_per_pixel = 2
    /\ max_threads = 2

\* C4: for every max_threads and every image_height >= 1 (of an image with
\* pixels and samples) the monitoring loop eventually terminates, and when it
\* does the counters sum to image_height.
C4_MonitorTerminates ==
    /\ (image_height >= 1 /\ image_width >= 1 /\ samples_per_pixel >= 1) =>
          <>(pc \in {"fill", "join"} \/ Returned)
    /\ [](pc = "fill" => Sum(render_progress) = image_height)

\* a step of the worker that owns counter k (element k of the model), at line 247
OwnerStep(k) ==
    \E t \in 1..Len(threads) :
       /\ threads[t].threadId = k - 1
       /\ threads[t].at = "progress"
       /\ threads'[t].j = threads[t].j + 1
       /\ UNCHANGED <<pc, i, monitor>>

\* a step of a worker at line 244
SampleStep ==
    \E t \in 1..Len(threads) :
       /\ threads[t].at = "sample"
       /\ threads'[t] # threads[t]
       /\ UNCHANGED <<pc, i, monitor>>

\* C5 as stated: from the spawn to the return of render() a progress counter is
\* written by its owning worker only, and the framebuffer by workers only.
C5_OnlyOwnerWrites ==
    [][pc # "initialize" =>
         /\ \A k \in 1..Len(render_progress) :
               render_progress'[k] # render_progress[k] => OwnerStep(k)
         /\ image' # image => SampleStep]_vars

\* C5 amended: the only other write is the reset of every counter to 0 that
\* print_render_progress makes after its polling loop has ended, when every
\* worker has finished its rows; the polling itself writes nothing.
C5_OwnerWritesUntilReset ==
    [][pc # "initialize" =>
         /\ \A k \in 1..Len(render_progress) :
               render_progress'[k] # render_progress[k] =>
                  \/ OwnerStep(k)
                  \/ /\ pc = "fill"
                     /\ render_progress'[k] = 0
                     /\ \A t \in 1..Len(threads) : threads[t].at \in {"return", "exited"}
         /\ image' # image => SampleStep]_vars

\* the reset has overwritten the counts of two workers
C5_Witness ==
    /\ pc = "join"
    /\ Len(render_progress) >= 2
    /\ \A k \in 1..Len(render_progress) : render_progress[k] = 0
    /\ \A t \in 1..Len(threads) : threads[t].j > threads[t].minRow

Degenerate ==
    \/ lookfrom = lookat
    \/ image_width <= 0
    \/ image_height <= 0
    \/ samples_per_pixel <= 0
    \/ max_depth <= 0

\* C6: a render() of a degenerate configuration spawns no worker and does not
\* return normally.
C6_DegenerateRejected ==
    Degenerate => (threads = <<>> /\ ~Returned)

\* C7: ray_color terminates whatever the scene answers; with a budget d <= 0 it
\* returns black at once, and otherwise at most d + 1 calls are nested, each
\* with a budget one below its caller's.
C7_BoundedRecursion ==
    /\ [](/\ Len(rc_stack) <= (IF max_depth >= 1 THEN max_depth + 1 ELSE 1)
          /\ \A k \in 1..Len(rc_stack) : rc_stack[k].depth = max_depth - (k - 1)
          /\ (pc = "ray_done" /\ max_depth <= 0) => rc_result = Black)
    /\ <>(pc = "ray_done")

\* every ray hit and scattered until the budget ran out
C7_Witness ==
    /\ max_depth >= 2
    /\ Len(rc_stack) = max_depth + 1
    /\ pc = "ray_return"
    /\ rc_result = Black

\* bytes of one output row: the pixels and the padding to a multiple of 4
Stride == 4 * ((3 * image_width + 3) \div 4)

\* C8: after the 54 header bytes write_image emits image_height rows, output
\* row r being framebuffer row image_height-1-r as blue, green, red bytes per
\* pixel, each row padded with zero bytes to a multiple of 4 bytes.
C8_BitmapRows ==
    (pc = "written" /\ f = "closed" /\ ~ioFailed /\ image_width >= 1 /\ image_height >= 1) =>
       /\ Len(out) = 54 + image_height * Stride
       /\ \A r \in 0..(image_height - 1) :
             /\ \A c \in 0..(image_width - 1) :
                   LET at == 54 + r * Stride + 3 * c
                       p  == (image_height - 1 - r) * image_width + c
                   IN /\ out[at + 1] = <<"blue", p>>
                      /\ out[at + 2] = <<"green", p>>
                      /\ out[at + 3] = <<"red", p>>
             /\ \A x \in (3 * image_width + 1)..Stride :
                   out[54 + r * Stride + x] = <<"lit", 0>>

C8_Witness ==
    /\ pc = "written"
    /\ f = "closed"
    /\ ~ioFailed
    /\ image_width = 3
    /\ image_height = 2
    /\ Len(out) = 54 + 24

\* C9: once the file could not be opened or a write failed or was short,
\* write_image writes nothing more and does not return as if it had succeeded.
C9_IOFailureSurfaced ==
    [][ioFailed => (out' = out /\ pc' # "written")]_vars

\* C10: every spawned worker's id is an index of render_progress, and there are
\* as many counters as workers.
C10_CounterPerWorker ==
    /\ \A k \in 1..Len(threads) : threads[k].threadId < Len(render_progress)
    /\ AllSpawned => Len(render_progress) = Len(threads)
====
